---- MODULE Spec2Model ----
(***************************************************************************)
(* The two onError analyzers of the repository:                            *)
(*   src/client/check-onerror-params.py  check_file  (generic analyzer)     *)
(*   src/client/find-id-error.py         check_file  (single-name analyzer) *)
(* A source line is a sequence of one-character strings; the regular       *)
(* expressions of the scripts are matchers over such sequences.  Indices   *)
(* i, j are the 0-based Python indices; line k of the file is lines[k+1].  *)
(* The model starts where the file has been read and split (line 17 of     *)
(* either script); a file that cannot be read gives the empty result.      *)
(***************************************************************************)
EXTENDS Integers, Sequences, FiniteSets, TLC

VARIABLES lines, pc, i, j, mutation_name, problem_vars, issues, visited,
          id_pc, id_i, id_j, problems, id_visited

vars == <<lines, pc, i, j, mutation_name, problem_vars, issues, visited,
          id_pc, id_i, id_j, problems, id_visited>>

gen_vars == <<pc, i, j, mutation_name, problem_vars, issues, visited>>

id_vars == <<id_pc, id_i, id_j, problems, id_visited>>

(***************************************************************************)
(* Characters and the primitive pieces of the regular expressions          *)
(***************************************************************************)

\* \w
WordChars ==
    { "a","b","c","d","e","f","g","h","i","j","k","l","m","n","o","p","q",
      "r","s","t","u","v","w","x","y","z",
      "A","B","C","D","E","F","G","H","I","J","K","L","M","N","O","P","Q",
      "R","S","T","U","V","W","X","Y","Z",
      "0","1","2","3","4","5","6","7","8","9","_" }

\* \s (a line never holds "\n": the file is split on it)
SpaceChars == { " ", "\t", "\r", "\f" }

Min(a, b) == IF a < b THEN a ELSE b

Max(a, b) == IF a > b THEN a ELSE b

\* the character at position p of s, "" outside s (start and end of the line)
At(s, p) == IF p >= 1 /\ p <= Len(s) THEN s[p] ELSE ""

\* the literal lit occurs in s at position p
StartsAt(s, p, lit) ==
    /\ p >= 1
    /\ p + Len(lit) - 1 <= Len(s)
    /\ \A k \in 1..Len(lit) : s[p + k - 1] = lit[k]

\* the literal lit occurs somewhere in s
Contains(s, lit) == \E p \in 1..Len(s) : StartsAt(s, p, lit)

\* \s* from p: the position after the longest run of whitespace
RECURSIVE SkipSpace(_, _)
SkipSpace(s, p) ==
    IF p <= Len(s) /\ s[p] \in SpaceChars THEN SkipSpace(s, p + 1) ELSE p

\* \w* from p: the position after the longest run of word characters
RECURSIVE SkipWord(_, _)
SkipWord(s, p) ==
    IF p <= Len(s) /\ s[p] \in WordChars THEN SkipWord(s, p + 1) ELSE p

\* [^stops]* from p: the position of the first character of stops, or Len(s)+1
RECURSIVE SkipUntil(_, _, _)
SkipUntil(s, p, stops) ==
    IF p <= Len(s) /\ s[p] \notin stops THEN SkipUntil(s, p + 1, stops) ELSE p

\* \bword\b at position p
WordAt(s, p, word) ==
    /\ StartsAt(s, p, word)
    /\ At(s, p - 1) \notin WordChars
    /\ At(s, p + Len(word)) \notin WordChars

\* str.strip()
RECURSIVE RStrip(_)
RStrip(s) ==
    IF Len(s) > 0 /\ s[Len(s)] \in SpaceChars
    THEN RStrip(SubSeq(s, 1, Len(s) - 1))
    ELSE s

Strip(s) == LET t == RStrip(s) IN SubSeq(t, SkipSpace(t, 1), Len(t))

\* x in list
InList(x, list) == \E k \in 1..Len(list) : list[k] = x

(***************************************************************************)
(* check-onerror-params.py: the patterns of check_file                     *)
(***************************************************************************)

\* re.search(r'onError:\s*\(\s*error[^,)]*\)\s*=>', line)
HandlerSignature(line) ==
    \E p \in 1..Len(line) :
        /\ StartsAt(line, p, <<"o","n","E","r","r","o","r",":">>)
        /\ LET a == SkipSpace(line, p + 8) IN
           /\ At(line, a) = "("
           /\ LET b == SkipSpace(line, a + 1) IN
              /\ StartsAt(line, b, <<"e","r","r","o","r">>)
              /\ LET c == SkipUntil(line, b + 5, {",", ")"}) IN
                 /\ At(line, c) = ")"
                 /\ StartsAt(line, SkipSpace(line, c + 1), <<"=",">">>)

\* r'const\s+(\w+)\s*=\s*useMutation' matched at position p
MutationBindingAt(line, p) ==
    /\ StartsAt(line, p, <<"c","o","n","s","t">>)
    /\ LET a == SkipSpace(line, p + 5) IN
       /\ a > p + 5
       /\ LET b == SkipWord(line, a) IN
          /\ b > a
          /\ LET c == SkipSpace(line, b) IN
             /\ At(line, c) = "="
             /\ StartsAt(line, SkipSpace(line, c + 1), <<"u","s","e","M","u","t","a","t","i","o","n">>)

\* match = re.search(r'const\s+(\w+)\s*=\s*useMutation', lines[j])
HasMutationBinding(line) == \E p \in 1..Len(line) : MutationBindingAt(line, p)

\* match.group(1) of the leftmost match
MutationBindingName(line) ==
    LET p == CHOOSE q \in 1..Len(line) :
                 /\ MutationBindingAt(line, q)
                 /\ \A r \in 1..(q - 1) : ~MutationBindingAt(line, r)
        a == SkipSpace(line, p + 5)
    IN  SubSeq(line, a, SkipWord(line, a) - 1)

\* re.search(r'^\s*\}\s*,?\s*$', check_line)
ClosingBrace(line) ==
    LET a == SkipSpace(line, 1) IN
    /\ At(line, a) = "}"
    /\ LET b == SkipSpace(line, a + 1)
           c == IF At(line, b) = "," THEN b + 1 ELSE b
       IN  SkipSpace(line, c) = Len(line) + 1

\* next_line.startswith('on') or next_line == '});' or next_line == '}'
NextPropertyOrClose(next_line) ==
    \/ StartsAt(next_line, 1, <<"o","n">>)
    \/ next_line = <<"}",")",";">>
    \/ next_line = <<"}">>

\* re.findall(r'\$\{(\w+)\}', check_line) scanning from position p
RECURSIVE TemplateVarsFrom(_, _)
TemplateVarsFrom(line, p) ==
    IF p > Len(line) THEN << >>
    ELSE LET b == SkipWord(line, p + 2) IN
         IF StartsAt(line, p, <<"$","{">>) /\ b > p + 2 /\ At(line, b) = "}"
         THEN <<SubSeq(line, p + 2, b - 1)>> \o TemplateVarsFrom(line, b + 1)
         ELSE TemplateVarsFrom(line, p + 1)

TemplateVars(line) == TemplateVarsFrom(line, 1)

\* the list with id left out
SafeVarsWithoutId ==
    << <<"e","r","r","o","r">>, <<"d","a","t","a">>, <<"v","a","r","i","a","b","l","e","s">>, <<"c","o","n","t","e","x","t">>, <<"e">>, <<"i">> >>

\* ['error', 'id', 'data', 'variables', 'context', 'e', 'i']
SafeVars ==
    << <<"e","r","r","o","r">>, <<"i","d">>, <<"d","a","t","a">>, <<"v","a","r","i","a","b","l","e","s">>, <<"c","o","n","t","e","x","t">>, <<"e">>, <<"i">> >>

\* re.search(rf'\b{var}\b\s*[.:[]', check_line)
MemberAccess(var, line) ==
    \E p \in 1..Len(line) :
        /\ WordAt(line, p, var)
        /\ At(line, SkipSpace(line, p + Len(var))) \in {".", ":", "["}

\* (error|const|let|var|function|return|if|for|while)
DeclKeywords ==
    { <<"e","r","r","o","r">>, <<"c","o","n","s","t">>, <<"l","e","t">>, <<"v","a","r">>, <<"f","u","n","c","t","i","o","n">>, <<"r","e","t","u","r","n">>,
      <<"i","f">>, <<"f","o","r">>, <<"w","h","i","l","e">> }

\* the keyword filter left out
NoKeywordFilter(var, line) == FALSE

\* re.search(r'(error|const|...|while)\s+' + var, check_line)
KeywordBefore(var, line) ==
    \E p \in 1..Len(line) : \E kw \in DeclKeywords :
        /\ StartsAt(line, p, kw)
        /\ LET a == SkipSpace(line, p + Len(kw)) IN
           /\ a > p + Len(kw)
           /\ StartsAt(line, a, var)

(***************************************************************************)
(* check-onerror-params.py: the pieces of check_file's loop                *)
(***************************************************************************)

\* range(max(0, i-20), i)
BackWindow == 20

\* range(i + 1, min(i + 31, len(lines)))
ForwardStop == 31

\* mutation_name = "unknown"
Unknown == <<"u","n","k","n","o","w","n">>

\* the backward loop: the first j of range(max(0, i-20), i), ascending, whose
\* line matches the binding pattern gives the name; none leaves "unknown"
MutationName(ls, k) ==
    LET hits == { q \in Max(0, k - BackWindow)..(k - 1) :
                      HasMutationBinding(ls[q + 1]) }
    IN  IF hits = {} THEN Unknown
        ELSE LET first == CHOOSE q \in hits : \A r \in hits : q <= r
             IN  MutationBindingName(ls[first + 1])

\* the range without its window: range(i + 1, len(lines))
UnboundedBodyLimit(k, n) == n

\* the exclusive end of range(i + 1, min(i + 31, len(lines)))

BodyLimit(k, n) == Min(k + ForwardStop, n)

\* the break without the look at the next line
AnyClosingBrace(ls, q) == ClosingBrace(ls[q + 1])

\* lines 39-44: the line at index q is a closing brace and the line after it
\* exists and, stripped, starts with 'on' or is '});' or '}'

ClosesHandler(ls, q) ==
    /\ ClosingBrace(ls[q + 1])
    /\ q + 1 < Len(ls)
    /\ NextPropertyOrClose(Strip(ls[q + 2]))

\* lines 51-53: var passes every filter of check_line
Suspicious(var, check_line) ==
    /\ ~InList(var, SafeVars)
    /\ ~MemberAccess(var, check_line)
    /\ ~KeywordBefore(var, check_line)

\* the append without the membership test
AppendAlways(pv, var) == Append(pv, var)

\* lines 55-56: if var not in problem_vars: problem_vars.append(var)

AppendNew(pv, var) == IF InList(var, pv) THEN pv ELSE Append(pv, var)

\* lines 48-56: the loop over template_vars, from its k-th element on
RECURSIVE CollectFrom(_, _, _, _)
CollectFrom(pv, template_vars, k, check_line) ==
    IF k > Len(template_vars) THEN pv
    ELSE CollectFrom(
             IF Suspicious(template_vars[k], check_line)
             THEN AppendNew(pv, template_vars[k])
             ELSE pv,
             template_vars, k + 1, check_line)

CollectVars(pv, check_line) ==
    CollectFrom(pv, TemplateVars(check_line), 1, check_line)

\* str(file_path)
FilePath == "src/file.tsx"

\* the dictionary with the 0-based index as its line
IssueAtIndex(k, name, pv, line) ==
    [ file |-> FilePath, line |-> k, mutation |-> name,
      variables |-> pv, code |-> Strip(line) ]

\* lines 59-65: the dictionary appended to issues
Issue(k, name, pv, line) ==
    [ file |-> FilePath, line |-> k + 1, mutation |-> name,
      variables |-> pv, code |-> Strip(line) ]

\* the report without its test
AlwaysReport(pv) == TRUE

\* line 58: if problem_vars

HasProblem(pv) == pv # << >>

(***************************************************************************)
(* check-onerror-params.py: check_file as a state machine                  *)
(*   pc = "scan"   at the while test of line 20                            *)
(*   pc = "body"   at the for of line 35, about to take index j            *)
(*   pc = "report" at line 58, the body loop left                          *)
(*   pc = "done"   returned                                                *)
(* visited records every (i, j) for which the body loop was entered.       *)
(***************************************************************************)

\* lines 20-24, 67: the line is no handler signature
SkipLine ==
    /\ pc = "scan"
    /\ i < Len(lines)
    /\ ~HandlerSignature(lines[i + 1])
    /\ i' = i + 1
    /\ UNCHANGED <<lines, pc, j, mutation_name, problem_vars, issues, visited>>
    /\ UNCHANGED id_vars

\* lines 20-34: a handler signature; find the owner, start the body scan
MatchSignature ==
    /\ pc = "scan"
    /\ i < Len(lines)
    /\ HandlerSignature(lines[i + 1])
    /\ mutation_name' = MutationName(lines, i)
    /\ problem_vars' = << >>
    /\ j' = i + 1
    /\ pc' = "body"
    /\ UNCHANGED <<lines, i, issues, visited>>
    /\ UNCHANGED id_vars

\* lines 35-44: the body line closes the handler: break
BodyBreak ==
    /\ pc = "body"
    /\ j < BodyLimit(i, Len(lines))
    /\ ClosesHandler(lines, j)
    /\ visited' = visited \cup {<<i, j>>}
    /\ pc' = "report"
    /\ UNCHANGED <<lines, i, j, mutation_name, problem_vars, issues>>
    /\ UNCHANGED id_vars

\* lines 35-56: the body line is scanned for template variables
BodyCollect ==
    /\ pc = "body"
    /\ j < BodyLimit(i, Len(lines))
    /\ ~ClosesHandler(lines, j)
    /\ visited' = visited \cup {<<i, j>>}
    /\ problem_vars' = CollectVars(problem_vars, lines[j + 1])
    /\ j' = j + 1
    /\ UNCHANGED <<lines, pc, i, mutation_name, issues>>
    /\ UNCHANGED id_vars

\* line 35: the range is exhausted
BodyExhausted ==
    /\ pc = "body"
    /\ j >= BodyLimit(i, Len(lines))
    /\ pc' = "report"
    /\ UNCHANGED <<lines, i, j, mutation_name, problem_vars, issues, visited>>
    /\ UNCHANGED id_vars

\* lines 58-67: problem_vars is not empty: one issue for the handler
ReportIssue ==
    /\ pc = "report"
    /\ HasProblem(problem_vars)
    /\ issues' = Append(issues,
                     Issue(i, mutation_name, problem_vars, lines[i + 1]))
    /\ i' = i + 1
    /\ pc' = "scan"
    /\ UNCHANGED <<lines, j, mutation_name, problem_vars, visited>>
    /\ UNCHANGED id_vars

\* lines 58, 67: problem_vars is empty: nothing is appended
ReportNothing ==
    /\ pc = "report"
    /\ ~HasProblem(problem_vars)
    /\ i' = i + 1
    /\ pc' = "scan"
    /\ UNCHANGED <<lines, j, mutation_name, problem_vars, issues, visited>>
    /\ UNCHANGED id_vars

\* lines 20, 69: end of the file
Return ==
    /\ pc = "scan"
    /\ i >= Len(lines)
    /\ pc' = "done"
    /\ UNCHANGED <<lines, i, j, mutation_name, problem_vars, issues, visited>>
    /\ UNCHANGED id_vars

(***************************************************************************)
(* find-id-error.py: the patterns of check_file                            *)
(***************************************************************************)

\* re.search(r'onError:\s*\(error[^)]*\)\s*=>', line)
IdHandlerSignature(line) ==
    \E p \in 1..Len(line) :
        /\ StartsAt(line, p, <<"o","n","E","r","r","o","r",":">>)
        /\ LET a == SkipSpace(line, p + 8) IN
           /\ StartsAt(line, a, <<"(","e","r","r","o","r">>)
           /\ LET c == SkipUntil(line, a + 6, {")"}) IN
              /\ At(line, c) = ")"
              /\ StartsAt(line, SkipSpace(line, c + 1), <<"=",">">>)

\* range(i + 1, min(i + 21, len(lines)))
IdForwardStop == 21

\* the range without its window: range(i + 1, len(lines))
IdUnboundedBodyLimit(k, n) == n

\* the exclusive end of range(i + 1, min(i + 21, len(lines)))
IdBodyLimit(k, n) == Min(k + IdForwardStop, n)

\* re.search(r'\bid\b', check_line)
IdReference(line) == \E p \in 1..Len(line) : WordAt(line, p, <<"i","d">>)

\* (error\.id|\.id|userId|eventId|meetingId|messageId|id:|id\?:|id,|{id|invalidateQueries)
IdExclusions ==
    { <<"e","r","r","o","r",".","i","d">>, <<".","i","d">>, <<"u","s","e","r","I","d">>, <<"e","v","e","n","t","I","d">>, <<"m","e","e","t","i","n","g","I","d">>,
      <<"m","e","s","s","a","g","e","I","d">>, <<"i","d",":">>, <<"i","d","?",":">>, <<"i","d",",">>, <<"{","i","d">>,
      <<"i","n","v","a","l","i","d","a","t","e","Q","u","e","r","i","e","s">> }

IdExcluded(line) == \E lit \in IdExclusions : Contains(line, lit)

\* re.search(r'^\s*\},?\s*$', check_line)
IdClosingBrace(line) ==
    LET a == SkipSpace(line, 1) IN
    /\ At(line, a) = "}"
    /\ LET c == IF At(line, a + 1) = "," THEN a + 2 ELSE a + 1
       IN  SkipSpace(line, c) = Len(line) + 1

\* re.search(r'^\s*const\s+\w+\s*=', check_line)
IdConstBinding(line) ==
    LET p == SkipSpace(line, 1) IN
    /\ StartsAt(line, p, <<"c","o","n","s","t">>)
    /\ LET a == SkipSpace(line, p + 5) IN
       /\ a > p + 5
       /\ LET b == SkipWord(line, a) IN
          /\ b > a
          /\ At(line, SkipSpace(line, b)) = "="

\* line 43
IdStopLine(line) == IdClosingBrace(line) \/ IdConstBinding(line)

\* lines 34-39: the dictionary appended to problems
IdProblem(k, q, line) ==
    [ file |-> FilePath, line_num |-> q + 1, line |-> Strip(line),
      onError_line |-> k + 1 ]

(***************************************************************************)
(* find-id-error.py: check_file as a state machine                         *)
(*   id_pc = "scan" at the while test of line 20                           *)
(*   id_pc = "body" at the for of line 26, about to take index id_j        *)
(*   id_pc = "done" returned                                               *)
(* id_visited records every (i, j) for which the body loop was entered.    *)
(***************************************************************************)

\* lines 20-24, 46: the line is no handler signature
IdSkipLine ==
    /\ id_pc = "scan"
    /\ id_i < Len(lines)
    /\ ~IdHandlerSignature(lines[id_i + 1])
    /\ id_i' = id_i + 1
    /\ UNCHANGED <<lines, id_pc, id_j, problems, id_visited>>
    /\ UNCHANGED gen_vars

\* lines 20-26: a handler signature: start the body scan
IdMatchSignature ==
    /\ id_pc = "scan"
    /\ id_i < Len(lines)
    /\ IdHandlerSignature(lines[id_i + 1])
    /\ id_j' = id_i + 1
    /\ id_pc' = "body"
    /\ UNCHANGED <<lines, id_i, problems, id_visited>>
    /\ UNCHANGED gen_vars

\* lines 26-40, 46: a bare id on the line: one problem, break
IdBodyProblem ==
    /\ id_pc = "body"
    /\ id_j < IdBodyLimit(id_i, Len(lines))
    /\ IdReference(lines[id_j + 1])
    /\ ~IdExcluded(lines[id_j + 1])
    /\ id_visited' = id_visited \cup {<<id_i, id_j>>}
    /\ problems' = Append(problems, IdProblem(id_i, id_j, lines[id_j + 1]))
    /\ id_i' = id_i + 1
    /\ id_pc' = "scan"
    /\ UNCHANGED <<lines, id_j>>
    /\ UNCHANGED gen_vars

\* lines 26-33, 43-46: no problem on the line, and it stops the scan
IdBodyStop ==
    /\ id_pc = "body"
    /\ id_j < IdBodyLimit(id_i, Len(lines))
    /\ ~(IdReference(lines[id_j + 1]) /\ ~IdExcluded(lines[id_j + 1]))
    /\ IdStopLine(lines[id_j + 1])
    /\ id_visited' = id_visited \cup {<<id_i, id_j>>}
    /\ id_i' = id_i + 1
    /\ id_pc' = "scan"
    /\ UNCHANGED <<lines, id_j, problems>>
    /\ UNCHANGED gen_vars

\* lines 26-33, 43: no problem on the line, and the scan goes on
IdBodyNext ==
    /\ id_pc = "body"
    /\ id_j < IdBodyLimit(id_i, Len(lines))
    /\ ~(IdReference(lines[id_j + 1]) /\ ~IdExcluded(lines[id_j + 1]))
    /\ ~IdStopLine(lines[id_j + 1])
    /\ id_visited' = id_visited \cup {<<id_i, id_j>>}
    /\ id_j' = id_j + 1
    /\ UNCHANGED <<lines, id_pc, id_i, problems>>
    /\ UNCHANGED gen_vars

\* lines 26, 46: the range is exhausted
IdBodyExhausted ==
    /\ id_pc = "body"
    /\ id_j >= IdBodyLimit(id_i, Len(lines))
    /\ id_i' = id_i + 1
    /\ id_pc' = "scan"
    /\ UNCHANGED <<lines, id_j, problems, id_visited>>
    /\ UNCHANGED gen_vars

\* lines 20, 48: end of the file
IdReturn ==
    /\ id_pc = "scan"
    /\ id_i >= Len(lines)
    /\ id_pc' = "done"
    /\ UNCHANGED <<lines, id_i, id_j, problems, id_visited>>
    /\ UNCHANGED gen_vars

(***************************************************************************)
(* The files analysed                                                      *)
(***************************************************************************)

\* the number of catalogue lines in a handler body of BodyFiles
MaxBody == 2

\* The backquote of a JavaScript template string is written ' in the lines
\* below: a TLA+ string cannot hold a backquote, and no pattern of either
\* script mentions the backquote or the quote.
EmptyLine == << >>

Blank(n) == [k \in 1..n |-> EmptyLine]

\* const m = useMutation({
OwnerM == <<"c","o","n","s","t"," ","m"," ","="," ","u","s","e","M","u","t","a","t","i","o","n","(","{">>

\* const other = useMutation({
OwnerOther == <<"c","o","n","s","t"," ","o","t","h","e","r"," ","="," ","u","s","e","M","u","t","a","t","i","o","n","(","{">>

\*   onError: (error) => {
SigPlain == <<" "," ","o","n","E","r","r","o","r",":"," ","(","e","r","r","o","r",")"," ","=",">"," ","{">>

\*   onError: ( error: Error ) => {
SigSpaced == <<" "," ","o","n","E","r","r","o","r",":"," ","("," ","e","r","r","o","r",":"," ","E","r","r","o","r"," ",")"," ","=",">"," ","{">>

\*   onError: (error, vars) => {
SigTwoParams == <<" "," ","o","n","E","r","r","o","r",":"," ","(","e","r","r","o","r",","," ","v","a","r","s",")"," ","=",">"," ","{">>

\*     toast('Failed ${id}');
ToastId == <<" "," "," "," ","t","o","a","s","t","(","'","F","a","i","l","e","d"," ","$","{","i","d","}","'",")",";">>

\*     toast('Failed ${itemId}');
ToastItem == <<" "," "," "," ","t","o","a","s","t","(","'","F","a","i","l","e","d"," ","$","{","i","t","e","m","I","d","}","'",")",";">>

\*     const total = 5;
DeclTotal == <<" "," "," "," ","c","o","n","s","t"," ","t","o","t","a","l"," ","="," ","5",";">>

\*     log('${total}');
UseTotal == <<" "," "," "," ","l","o","g","(","'","$","{","t","o","t","a","l","}","'",")",";">>

\*     const total = 5; log('${total}');
DeclUseTotal == <<" "," "," "," ","c","o","n","s","t"," ","t","o","t","a","l"," ","="," ","5",";"," ","l","o","g","(","'","$","{","t","o","t","a","l","}","'",")",";">>

\*     log('${name} ${itemId} ${name}');
DupLine == <<" "," "," "," ","l","o","g","(","'","$","{","n","a","m","e","}"," ","$","{","i","t","e","m","I","d","}"," ","$","{","n","a","m","e","}","'",")",";">>

\*     log('${error.message} ${error}');
ErrorLine == <<" "," "," "," ","l","o","g","(","'","$","{","e","r","r","o","r",".","m","e","s","s","a","g","e","}"," ","$","{","e","r","r","o","r","}","'",")",";">>

\*     log('${name}', name.length);
MemberLine == <<" "," "," "," ","l","o","g","(","'","$","{","n","a","m","e","}","'",","," ","n","a","m","e",".","l","e","n","g","t","h",")",";">>

\*     log('${data} ${e}');
SafeLine == <<" "," "," "," ","l","o","g","(","'","$","{","d","a","t","a","}"," ","$","{","e","}","'",")",";">>

\*     }
BraceLine == <<" "," "," "," ","}">>

\*     log('${late}', id);
LateLine == <<" "," "," "," ","l","o","g","(","'","$","{","l","a","t","e","}","'",","," ","i","d",")",";">>

\*   },
CloseComma == <<" "," ","}",",">>

\*   } ,
CloseSpaced == <<" "," ","}"," ",",">>

\*   }
CloseBare == <<" "," ","}">>

\* });
EndCall == <<"}",")",";">>

\* }
EndBlock == <<"}">>

\*   onSuccess: () => {
OnSuccess == <<" "," ","o","n","S","u","c","c","e","s","s",":"," ","(",")"," ","=",">"," ","{">>

\*   retry: 3,
RetryLine == <<" "," ","r","e","t","r","y",":"," ","3",",">>

BodyCatalogue ==
    { ToastId, ToastItem, DeclTotal, UseTotal, DeclUseTotal, DupLine,
      ErrorLine, MemberLine, SafeLine, BraceLine, EmptyLine, SigPlain }

Bodies == UNION { [1..n -> BodyCatalogue] : n \in 0..MaxBody }

\* what precedes the signature: no binding, one binding at a distance around
\* the backward window, two bindings
Prefixes ==
    {<< >>, Blank(2)}
    \cup { <<OwnerM>> \o Blank(g) : g \in {0, 1, BackWindow - 1, BackWindow} }
    \cup { <<OwnerM>> \o Blank(g) \o <<OwnerOther>> \o Blank(h) :
               g \in {0, BackWindow - 2, BackWindow - 1}, h \in {0, 1} }

\* what follows the body
Tails ==
    { << >>,
      <<CloseComma, EndCall>>,
      <<CloseComma, EmptyLine, EndCall>>,
      <<CloseComma, OnSuccess>>,
      <<CloseBare, EndBlock>>,
      <<CloseComma, RetryLine>>,
      <<CloseSpaced, EndCall>>,
      <<CloseComma>> }

OwnerFiles ==
    { pre \o <<SigPlain, body, CloseComma, EndCall>> :
          pre \in Prefixes, body \in {ToastId, ToastItem} }

BodyFiles ==
    { <<OwnerM, SigPlain>> \o body \o tail :
          body \in Bodies, tail \in {<< >>, <<CloseComma, EndCall>>} }

TailFiles ==
    { <<OwnerM, sig>> \o body \o tail \o late :
          sig \in {SigPlain, SigSpaced, SigTwoParams},
          body \in {<<ToastItem>>, <<UseTotal, BraceLine, DupLine>>},
          tail \in Tails,
          late \in {<< >>, <<LateLine>>} }

\* a body that runs past the forward windows (30 and 20 lines) unclosed
WindowFiles ==
    { <<OwnerM, SigPlain, ToastItem>> \o Blank(n) \o <<LateLine, ToastId>> :
          n \in (IdForwardStop - 4)..(IdForwardStop - 1)
                \cup (ForwardStop - 4)..(ForwardStop - 1) }

Files == OwnerFiles \cup BodyFiles \cup TailFiles \cup WindowFiles

Init ==
    /\ lines \in Files
    /\ pc = "scan"
    /\ i = 0
    /\ j = 0
    /\ mutation_name = Unknown
    /\ problem_vars = << >>
    /\ issues = << >>
    /\ visited = {}
    /\ id_pc = "scan"
    /\ id_i = 0
    /\ id_j = 0
    /\ problems = << >>
    /\ id_visited = {}

\* check_file of check-onerror-params.py
Next ==
    \/ SkipLine
    \/ MatchSignature
    \/ BodyBreak
    \/ BodyCollect
    \/ BodyExhausted
    \/ ReportIssue
    \/ ReportNothing
    \/ Return

\* check_file of find-id-error.py
NextId ==
    \/ IdSkipLine
    \/ IdMatchSignature
    \/ IdBodyProblem
    \/ IdBodyStop
    \/ IdBodyNext
    \/ IdBodyExhausted
    \/ IdReturn

\* the two scripts share nothing but the file, which neither writes: one run
\* after the other reaches every pair of results
NextBoth ==
    \/ Next
    \/ (pc = "done" /\ NextId)

Spec == Init /\ [][Next]_vars

SpecBoth == Init /\ [][NextBoth]_vars

(***************************************************************************)
(* Vocabulary of the properties                                            *)
(***************************************************************************)

Done == pc = "done"

Range(seq) == { seq[n] : n \in 1..Len(seq) }

\* the indices of the lines the generic pattern matches
SigIndices == { k \in 0..(Len(lines) - 1) : HandlerSignature(lines[k + 1]) }

\* the body indices the scan of the handler at k entered
VisitedOf(k) == { q \in 0..(Len(lines) - 1) : <<k, q>> \in visited }

\* ... and those among them whose identifiers were extracted (not the break)
CollectedOf(k) == { q \in VisitedOf(k) : ~ClosesHandler(lines, q) }

\* the identifiers of the line at q that pass the three filters
Survivors(q) ==
    { var \in Range(TemplateVars(lines[q + 1])) :
          Suspicious(var, lines[q + 1]) }

\* the body lines of the handler at k that hold a surviving identifier
QualifyingLines(k) == { q \in CollectedOf(k) : Survivors(q) # {} }

\* the findings reported for the handler at k
IssuesAt(k) == { n \in 1..Len(issues) : issues[n].line = k + 1 }

(***************************************************************************)
(* C1                                                                      *)
(***************************************************************************)

\* C1 (as stated): every Finding's line lies in the body line range
\* (signature line + 1 .. boundary line) of some handler matched in the file.
C1_FindingLineInBody ==
    \A n \in 1..Len(issues) :
        \E k \in SigIndices : \E q \in VisitedOf(k) : issues[n].line = q + 1

\* C1 (amended): every Finding's line is the 1-based number of a matched
\* handler signature line, and its code is that line stripped; the body
\* lines the identifiers came from are not recorded.
C1_FindingLineIsSignature ==
    \A n \in 1..Len(issues) :
        /\ issues[n].line - 1 \in SigIndices
        /\ issues[n].code = Strip(lines[issues[n].line])
        /\ issues[n].file = FilePath

\* a finished file with a Finding whose handler scanned at least two lines
C1_Witness ==
    /\ Done
    /\ \E n \in 1..Len(issues) :
           Cardinality(VisitedOf(issues[n].line - 1)) >= 2

(***************************************************************************)
(* C2                                                                      *)
(***************************************************************************)

\* C2 (as stated): one Finding per body line holding a surviving identifier:
\* a handler with k qualifying lines gives k Findings.  They are counted
\* wherever they are reported, at the signature or in the body, and "at
\* least k", a handler nested in the body adding Findings of its own.
C2_OneFindingPerLine ==
    Done =>
        \A k \in SigIndices :
            Cardinality({ n \in 1..Len(issues) :
                              issues[n].line - 1 \in {k} \cup VisitedOf(k) })
                >= Cardinality(QualifyingLines(k))

\* C2 (amended): one Finding per matched handler that has at least one
\* qualifying body line, none for a handler without one, the Findings in the
\* order of the signature lines: k >= 1 qualifying lines give one Finding.
C2_OneFindingPerHandler ==
    Done =>
        /\ \A k \in SigIndices :
               Cardinality(IssuesAt(k)) =
                   IF QualifyingLines(k) # {} THEN 1 ELSE 0
        /\ \A n \in 1..Len(issues) : issues[n].line - 1 \in SigIndices
        /\ \A n \in 1..(Len(issues) - 1) : issues[n].line < issues[n + 1].line

\* a handler with two qualifying body lines and a single Finding
C2_Witness ==
    /\ Done
    /\ \E k \in SigIndices :
           /\ Cardinality(QualifyingLines(k)) >= 2
           /\ Cardinality(IssuesAt(k)) = 1

(***************************************************************************)
(* C3                                                                      *)
(***************************************************************************)

\* the binding nearest to the signature at k among the 20 lines before it
NearestOwner(ls, k) ==
    LET hits == { q \in Max(0, k - 20)..(k - 1) : HasMutationBinding(ls[q + 1]) }
    IN  IF hits = {} THEN <<"u","n","k","n","o","w","n">>
        ELSE LET last == CHOOSE q \in hits : \A r \in hits : r <= q
             IN  MutationBindingName(ls[last + 1])

\* C3: the owner name of a handler is the name bound by the nearest preceding
\* binding line within 20 lines, "unknown" when there is none.
C3_NearestOwnerWins ==
    /\ pc \in {"body", "report"} => mutation_name = NearestOwner(lines, i)
    /\ \A n \in 1..Len(issues) :
           issues[n].mutation = NearestOwner(lines, issues[n].line - 1)

(***************************************************************************)
(* C4                                                                      *)
(***************************************************************************)

\* the end-to-end file: the binding of m, g lines further the signature, the
\* toast line as the body, the closing of the handler and of the call
Scenario(g, toast) ==
    <<OwnerM>> \o Blank(g) \o <<SigPlain, toast, CloseComma, EndCall>>

IsScenario(toast) == \E g \in 0..19 : lines = Scenario(g, toast)

\* C4 (as stated): the scenario yields exactly one Finding, naming id,
\* owned by m, flagging the toast line.
C4_ScenarioFlagsId ==
    (Done /\ IsScenario(ToastId)) =>
        /\ Len(issues) = 1
        /\ issues[1].variables = << <<"i","d">> >>
        /\ issues[1].mutation = <<"m">>
        /\ lines[issues[1].line] = ToastId

\* C4 (amended): the scenario yields no Finding, id being in the Allowlist;
\* with itemId in place of id it yields exactly one Finding, naming itemId,
\* owned by m, reported at the signature line.
C4_ScenarioFlagsNothing ==
    /\ (Done /\ IsScenario(ToastId)) => issues = << >>
    /\ (Done /\ IsScenario(ToastItem)) =>
           /\ Len(issues) = 1
           /\ issues[1].variables = << <<"i","t","e","m","I","d">> >>
           /\ issues[1].mutation = <<"m">>
           /\ lines[issues[1].line] = SigPlain

\* the scenario file analysed to the end, without a Finding
C4_Witness == Done /\ IsScenario(ToastId) /\ issues = << >>

(***************************************************************************)
(* C5                                                                      *)
(***************************************************************************)

\* the Allowlist as the specification lists it
ListedSafe ==
    { <<"e","r","r","o","r">>, <<"i","d">>, <<"d","a","t","a">>, <<"v","a","r","i","a","b","l","e","s">>, <<"c","o","n","t","e","x","t">>, <<"e">>, <<"i">> }

\* C5: no Allowlist identifier is ever among a Finding's identifiers, and a
\* handler whose body placeholders hold Allowlist identifiers only has no
\* Finding.
C5_AllowlistNeverReported ==
    /\ Range(problem_vars) \cap ListedSafe = {}
    /\ \A n \in 1..Len(issues) : Range(issues[n].variables) \cap ListedSafe = {}
    /\ Done =>
           \A k \in SigIndices :
               (\A q \in VisitedOf(k) :
                    Range(TemplateVars(lines[q + 1])) \subseteq ListedSafe)
               => IssuesAt(k) = {}

\* a handler whose body has placeholders, all of Allowlist identifiers, and
\* no Finding
C5_Witness ==
    /\ Done
    /\ \E k \in SigIndices :
           /\ \E q \in VisitedOf(k) : TemplateVars(lines[q + 1]) # << >>
           /\ \A q \in VisitedOf(k) :
                  Range(TemplateVars(lines[q + 1])) \subseteq ListedSafe
           /\ IssuesAt(k) = {}

(***************************************************************************)
(* C6                                                                      *)
(***************************************************************************)

Total == <<"t","o","t","a","l">>

\* the line at q declares total locally
DeclaresTotal(q) == Contains(lines[q + 1], <<"c","o","n","s","t"," ","t","o","t","a","l"," ","="," ","5",";">>)

\* the line at q references ${total}
UsesTotal(q) == Total \in Range(TemplateVars(lines[q + 1]))

\* some Finding of the handler at k names total
NamesTotal(k) == \E n \in IssuesAt(k) : Total \in Range(issues[n].variables)

\* C6 (as stated): when a body declares total and references ${total} on the
\* declaration's line or on later lines only, no Finding names total.
C6_LocalNeverReported ==
    Done =>
        \A k \in SigIndices :
            (\E d \in CollectedOf(k) :
                 /\ DeclaresTotal(d)
                 /\ \E q \in CollectedOf(k) : UsesTotal(q)
                 /\ \A q \in CollectedOf(k) : UsesTotal(q) => q >= d)
            => ~NamesTotal(k)

\* C6 (amended): a ${total} on the line that itself holds "const total" does
\* not make the Finding name total; a ${total} on a later line, which holds
\* no declaration of its own, does.
C6_SameLineDeclOnly ==
    Done =>
        \A k \in SigIndices :
            /\ NamesTotal(k) =>
                   \E q \in CollectedOf(k) :
                       UsesTotal(q) /\ ~Contains(lines[q + 1], <<"c","o","n","s","t"," ","t","o","t","a","l">>)
            /\ (\E q \in CollectedOf(k) : lines[q + 1] = UseTotal)
                   => NamesTotal(k)

\* a handler whose only ${total} is on the declaration's own line, and whose
\* Findings do not name total
C6_Witness ==
    /\ Done
    /\ \E k \in SigIndices :
           /\ \E q \in CollectedOf(k) : DeclaresTotal(q) /\ UsesTotal(q)
           /\ \A q \in CollectedOf(k) : UsesTotal(q) => DeclaresTotal(q)
           /\ ~NamesTotal(k)

(***************************************************************************)
(* C7                                                                      *)
(***************************************************************************)

\* the body scan of the handler at i is inside [i+1, min(i+30, last line)]
C7_ScanInsideWindow ==
    /\ pc = "body" => j >= i + 1 /\ j <= Min(i + 31, Len(lines))
    /\ \A kq \in visited :
           /\ kq[2] >= kq[1] + 1
           /\ kq[2] <= Min(kq[1] + 30, Len(lines) - 1)

\* every identifier of a Finding stands in a placeholder of one of the 30
\* lines after the signature
C7_NothingBeyondWindow ==
    \A n \in 1..Len(issues) : \A var \in Range(issues[n].variables) :
        \E q \in issues[n].line..Min(issues[n].line + 29, Len(lines) - 1) :
            var \in Range(TemplateVars(lines[q + 1]))

\* one step leaves the outer index alone or adds one to it, and every
\* iteration of the outer loop, with or without a match, ends adding one
C7_IndexAdvances ==
    /\ i' \in {i, i + 1}
    /\ (pc' = "scan" /\ pc \in {"scan", "report"}) => i' = i + 1

\* the steps check_file can still take, at most: 34 for every line from i
\* on (one to match, at most 31 in the body loop, one to leave it and one to
\* report), less those of the current iteration already taken
C7_StepsLeft ==
    (Len(lines) + 1 - i) * 34
    - (CASE pc = "scan" -> 0
         [] pc = "body" -> 1 + (j - i)
         [] pc = "report" -> 33
         [] pc = "done" -> 34)

\* C7: check_file terminates on every file: every step takes one from a
\* natural number of steps left, so no run is infinite; the outer index
\* advances by one per iteration, matched or not; the body scan of a
\* handler at i stays in [i+1, min(i+30, last line)], and no line after
\* i+30 contributes to its Finding.
C7_Terminates ==
    /\ [](C7_ScanInsideWindow /\ C7_NothingBeyondWindow /\ C7_StepsLeft >= 0)
    /\ [][C7_IndexAdvances /\ C7_StepsLeft' < C7_StepsLeft]_vars

\* the body scan stopped by the window edge, lines of the file still ahead
C7_Witness ==
    /\ pc = "report"
    /\ j = i + 31
    /\ j < Len(lines)
    /\ \A q \in VisitedOf(i) : ~ClosingBrace(lines[q + 1])

(***************************************************************************)
(* C8                                                                      *)
(***************************************************************************)

\* the first line after index q that is not blank, stripped; << >> if none
RECURSIVE NextNonBlank(_)
NextNonBlank(q) ==
    IF q + 1 >= Len(lines) THEN << >>
    ELSE IF Strip(lines[q + 2]) # << >> THEN Strip(lines[q + 2])
    ELSE NextNonBlank(q + 1)

\* the line right after index q, stripped; << >> if none
NextLine(q) == IF q + 1 >= Len(lines) THEN << >> ELSE Strip(lines[q + 2])

\* the last index of the 30-line window of the handler at k
WindowEnd(k) == Min(k + 30, Len(lines) - 1)

\* the scan of every handler covers the lines from k+1 to the first line of
\* the window that bounds(q), that line included, or to the window's end;
\* the Finding's identifiers come from the lines before it
ScanEndsAtFirst(bounds(_)) ==
    Done =>
        \A k \in SigIndices :
            LET stops == { q \in (k + 1)..WindowEnd(k) : bounds(q) }
                end == IF stops = {} THEN WindowEnd(k)
                       ELSE CHOOSE q \in stops : \A r \in stops : q <= r
                before == IF stops = {} THEN (k + 1)..end
                          ELSE (k + 1)..(end - 1)
            IN  /\ VisitedOf(k) = (k + 1)..end
                /\ \A n \in IssuesAt(k) :
                       Range(issues[n].variables) =
                           UNION { Survivors(q) : q \in before }

\* a closing brace whose following non-blank line starts with "on" or
\* closes the call
BoundaryNonBlank(q) ==
    ClosingBrace(lines[q + 1]) /\ NextPropertyOrClose(NextNonBlank(q))

\* a closing brace whose immediately following line does
BoundaryNextLine(q) ==
    ClosingBrace(lines[q + 1]) /\ NextPropertyOrClose(NextLine(q))

\* C8 (as stated): the body scan ends at the first closing-brace line of the
\* window whose following NON-BLANK line starts a handler-style property or
\* closes the call; nothing from that line on contributes.
C8_EndsAtNonBlankBoundary == ScanEndsAtFirst(BoundaryNonBlank)

\* C8 (amended): the body scan ends at the first closing-brace line of the
\* window whose IMMEDIATELY following line, stripped, starts with "on" or is
\* "});" or "}"; a blank line after the brace keeps the scan going; nothing
\* from the boundary line on contributes.
C8_EndsAtNextLineBoundary == ScanEndsAtFirst(BoundaryNextLine)

\* a closing brace followed by a blank line and then the end of the call:
\* the scan went on and a later line contributed to the Finding
C8_Witness ==
    /\ Done
    /\ \E k \in SigIndices : \E q \in VisitedOf(k) :
           /\ ClosingBrace(lines[q + 1])
           /\ NextLine(q) = << >>
           /\ NextPropertyOrClose(NextNonBlank(q))
           /\ \E r \in CollectedOf(k) : \E n \in IssuesAt(k) :
                  r > q /\ Survivors(r) \cap Range(issues[n].variables) # {}

(***************************************************************************)
(* C9                                                                      *)
(***************************************************************************)

BothDone == pc = "done" /\ id_pc = "done"

\* the indices of the lines the single-name pattern matches
IdSigIndices ==
    { k \in 0..(Len(lines) - 1) : IdHandlerSignature(lines[k + 1]) }

IdVisitedOf(k) == { q \in 0..(Len(lines) - 1) : <<k, q>> \in id_visited }

\* C9 (as stated): the two analyzers match the same signature lines and scan
\* the same body lines for each handler.
C9_SameLocatorAndBoundary ==
    BothDone =>
        /\ IdSigIndices = SigIndices
        /\ \A k \in SigIndices : IdVisitedOf(k) = VisitedOf(k)

\* C9 (amended): the two analyzers share the shape of the scan only: for a
\* signature at i each scans a gap-free run of lines that starts at i+1 and
\* stays in a forward window, i+30 for the generic analyzer and i+20 for the
\* single-name one, and scans nothing for a line its pattern does not match.
C9_SameShapeOnly ==
    BothDone =>
        /\ \A kq \in visited :
               /\ kq[1] \in SigIndices
               /\ kq[2] <= Min(kq[1] + 30, Len(lines) - 1)
               /\ \A q \in (kq[1] + 1)..kq[2] : <<kq[1], q>> \in visited
        /\ \A kq \in id_visited :
               /\ kq[1] \in IdSigIndices
               /\ kq[2] <= Min(kq[1] + 20, Len(lines) - 1)
               /\ \A q \in (kq[1] + 1)..kq[2] : <<kq[1], q>> \in id_visited

\* a signature both match whose two scans end at different lines, the
\* single-name one at its own window's edge
C9_Witness ==
    /\ BothDone
    /\ \E k \in SigIndices \cap IdSigIndices :
           /\ IdVisitedOf(k) # VisitedOf(k)
           /\ <<k, k + 20>> \in id_visited
           /\ <<k, k + 21>> \in visited

(***************************************************************************)
(* C10                                                                     *)
(***************************************************************************)

\* the surviving identifiers of the line at q, left to right, repeats kept
RECURSIVE KeepSurvivors(_, _)
KeepSurvivors(tv, q) ==
    IF tv = << >> THEN << >>
    ELSE (IF Suspicious(Head(tv), lines[q + 1]) THEN <<Head(tv)>> ELSE << >>)
         \o KeepSurvivors(Tail(tv), q)

\* the surviving identifiers of the lines from to..to, top to bottom
RECURSIVE Occurrences(_, _, _)
Occurrences(k, from, to) ==
    IF from > to THEN << >>
    ELSE (IF from \in CollectedOf(k)
          THEN KeepSurvivors(TemplateVars(lines[from + 1]), from)
          ELSE << >>)
         \o Occurrences(k, from + 1, to)

\* seq without the elements that occurred earlier in it
RECURSIVE FirstSeen(_)
FirstSeen(seq) ==
    IF seq = << >> THEN << >>
    ELSE LET front == FirstSeen(SubSeq(seq, 1, Len(seq) - 1))
         IN  IF seq[Len(seq)] \in Range(front) THEN front
             ELSE Append(front, seq[Len(seq)])

NoRepeat(seq) == \A a, b \in 1..Len(seq) : seq[a] = seq[b] => a = b

\* C10: a Finding's identifier list is not empty, holds no identifier twice,
\* and is in first-seen order, the body read top to bottom and each line
\* left to right.
C10_VariablesFirstSeen ==
    /\ NoRepeat(problem_vars)
    /\ \A n \in 1..Len(issues) :
           /\ issues[n].variables # << >>
           /\ NoRepeat(issues[n].variables)
           /\ issues[n].variables =
                  FirstSeen(Occurrences(issues[n].line - 1, issues[n].line,
                                        Len(lines) - 1))

\* a Finding with two identifiers, one of them seen twice in the body
C10_Witness ==
    /\ Done
    /\ \E n \in 1..Len(issues) :
           /\ Len(issues[n].variables) >= 2
           /\ Len(Occurrences(issues[n].line - 1, issues[n].line,
                              Len(lines) - 1)) > Len(issues[n].variables)

====
